---- MODULE Spec2Model ----
(***************************************************************************)
(* Escalation and capacity-aware staff assignment of the chat backend      *)
(* (backend/src/services/escalation_service.py).                           *)
(*                                                                         *)
(* The store (PostgreSQL, default READ COMMITTED) holds the rows of the    *)
(* tables `sessions` and `users`.  Every request runs in one of several    *)
(* gunicorn worker processes with its own SQLAlchemy session: a query      *)
(* copies a row into the worker's identity map, attribute assignments      *)
(* change the copy, and commit() writes the changed columns back.  Each    *)
(* SQL statement / commit is one atomic step; steps of different calls     *)
(* interleave freely.                                                      *)
(*                                                                         *)
(* Spec and SpecSeq run the calls of the service, SpecApi runs them behind *)
(* the endpoints of api/admin/escalation.py, SpecScenario runs one script  *)
(* of calls, and SpecDetect runs the keyword detector.                     *)
(***************************************************************************)
EXTENDS Integers, Sequences, FiniteSets, TLC

\* ---- bounds of the model ------------------------------------------------
NumSessions == 2
NumStaff    == 2
NumWorkers  == 2
NumTenants  == 2
NumReasons  == 1
MaxCap      == 2
MaxCalls    == 3   \* calls started in a run with concurrent workers
MaxSeqCalls == 4   \* calls started in a run with one call at a time
MaxTokens   == 3   \* pieces of a message given to the detector
MaxCustom   == 2   \* custom keywords given to the detector
MaxDetectCalls == 1   \* calls of the detector in a run
MaxOpsCalls == 3   \* calls started in a run with end_session and staff administration

SessionIds == 1..NumSessions
UserIds    == 1..NumStaff
Workers    == 1..NumWorkers

Tenants     == 1..NumTenants

\* the tenant owning a session / a staff user (tenant_id never changes)
TenantOfSession(sid) == 1
TenantOfUser(uid) == 1

\* request.reason of the escalation request (free text)
Reasons == 1..NumReasons

Null == 0   \* SQL NULL / Python None for ids and timestamps

\* models/user.py supporter_status values and the eligible ones
AvailabilityValues == {"online", "available", "offline"}
EligibleStatuses   == {"online", "available"}

VARIABLES
    sessions,   \* table sessions: session_id -> row
    users,      \* table users:    user_id    -> row
    pc,         \* worker -> position in the running call
    op,         \* worker -> the call it runs (name and arguments)
    ormSession, \* worker -> the ChatSession object of its identity map
    ormUser,    \* worker -> the User object of its identity map
    result,     \* worker -> the dictionary the call returned
    calls       \* number of calls started so far

vars == <<sessions, users, pc, op, ormSession, ormUser, result, calls>>

\* ---- rows and objects ---------------------------------------------------
NoSession == [present |-> FALSE, tenant_id |-> Null,
              escalation_status |-> "none", escalation_reason |-> Null,
              assigned_user_id |-> Null, escalation_requested_at |-> Null,
              escalation_assigned_at |-> Null]

NoUser == [present |-> FALSE, user_id |-> Null, tenant_id |-> Null, role |-> "none",
           supporter_status |-> "offline", max_concurrent_sessions |-> 0,
           current_sessions_count |-> 0]

NoOp == [name |-> "none", session_id |-> Null, tenant_id |-> Null, user_id |-> Null,
         reason |-> Null]

NoResult == [success |-> FALSE, error |-> "none", escalation_status |-> "none",
             auto_assigned |-> FALSE, assigned_user_id |-> Null]

Failure(err) == [NoResult EXCEPT !.error = err]

\* ---- queries ------------------------------------------------------------
\* db.query(ChatSession).filter(session_id == sid, tenant_id == tid).first()
QuerySession(tbl, sid, tid) ==
    IF sid \in DOMAIN tbl /\ tbl[sid].tenant_id = tid THEN tbl[sid] ELSE NoSession

\* db.query(ChatSession).filter(session_id == sid).first(): no tenant filter
QuerySessionById(tbl, sid) ==
    IF sid \in DOMAIN tbl THEN tbl[sid] ELSE NoSession

\* a user query that forgets the role filter
QuerySupporterAnyRole(tbl, uid, tid) ==
    IF uid \in DOMAIN tbl /\ tbl[uid].tenant_id = tid THEN tbl[uid] ELSE NoUser

\* db.query(User).filter(user_id == uid, tenant_id == tid, role == 'supporter').first()
QuerySupporter(tbl, uid, tid) ==
    IF uid \in DOMAIN tbl /\ tbl[uid].tenant_id = tid /\ tbl[uid].role = "supporter"
    THEN tbl[uid]
    ELSE NoUser

\* db.query(User).filter(User.user_id == session.assigned_user_id).first()
QueryUserById(tbl, uid) ==
    IF uid \in DOMAIN tbl THEN tbl[uid] ELSE NoUser

\* a WHERE clause that forgets the supporter_status filter
IsAvailableAnyStatus(u, tid) ==
    /\ u.tenant_id = tid
    /\ u.role = "supporter"
    /\ u.current_sessions_count < u.max_concurrent_sessions

\* a WHERE clause that forgets the capacity filter
IsAvailableIgnoringCeiling(u, tid) ==
    /\ u.tenant_id = tid
    /\ u.role = "supporter"
    /\ u.supporter_status \in EligibleStatuses

\* the WHERE clause of find_available_staff
IsAvailable(u, tid) ==
    /\ u.tenant_id = tid
    /\ u.role = "supporter"
    /\ u.supporter_status \in EligibleStatuses
    /\ u.current_sessions_count < u.max_concurrent_sessions

\* find_available_staff: the rows the query may return, ORDER BY
\* current_sessions_count ASC (rows of equal count come in any order)
Injective(seq) == \A i, j \in DOMAIN seq : i # j => seq[i] # seq[j]

\* a query without the ORDER BY: the available rows in any order
FindAvailableStaffUnordered(tbl, tid) ==
    LET avail == {u \in DOMAIN tbl : IsAvailable(tbl[u], tid)}
        n     == Cardinality(avail)
    IN  {lst \in [1..n -> avail] : Injective(lst)}

FindAvailableStaff(tbl, tid) ==
    LET avail == {u \in DOMAIN tbl : IsAvailable(tbl[u], tid)}
        n     == Cardinality(avail)
    IN  {lst \in [1..n -> avail] :
            /\ Injective(lst)
            /\ \A i \in 1..n, j \in 1..n :
                 i < j => tbl[lst[i]].current_sessions_count
                            <= tbl[lst[j]].current_sessions_count}

\* ---- the unit of work ---------------------------------------------------
\* db.add(obj); db.commit(): the UPDATE sets the columns whose value differs
\* from the value loaded into the object, and no other column of the row
FlushRow(row, loaded, new) ==
    [f \in DOMAIN row |-> IF new[f] # loaded[f] THEN new[f] ELSE row[f]]

\* datetime.utcnow(): a time later than the time it replaces.  Times are
\* kept up to "differs from the value it overwrites": 1 and 2 alternate.
UtcNow(old) == IF old = 1 THEN 2 ELSE 1

\* ---- escalate_session ---------------------------------------------------
\* a guard that rejects only a pending session
AlreadyEscalatedPendingOnly(s) == s.escalation_status = "pending"

\* line 158: the guard "already escalated"
AlreadyEscalated(s) == s.escalation_status # "none"

\* lines 170-172: the assignments of escalate_session
MarkPending(s, reason) ==
    [s EXCEPT !.escalation_status = "pending",
              !.escalation_reason = reason,
              !.escalation_requested_at = UtcNow(@)]

\* ---- assign_user --------------------------------------------------------
\* a guard that lets a resolved session be assigned again
AssignableNotNone(s) == s.escalation_status # "none"

\* line 311
Assignable(s) == s.escalation_status \in {"pending", "assigned"}

\* line 333
StaffOnline(u) == u.supporter_status \in EligibleStatuses

\* a capacity check that is off by one
AtCapacityOffByOne(u) == u.current_sessions_count > u.max_concurrent_sessions

\* line 339
AtCapacity(u) == u.current_sessions_count >= u.max_concurrent_sessions

\* lines 346-348
MarkAssigned(s, uid) ==
    [s EXCEPT !.assigned_user_id = uid,
              !.escalation_status = "assigned",
              !.escalation_assigned_at = UtcNow(@)]

\* line 351
Claim(u) == [u EXCEPT !.current_sessions_count = @ + 1]

\* ---- resolve_escalation -------------------------------------------------
\* a guard that lets every session be resolved
NotEscalatedNever(s) == FALSE

\* line 423
NotEscalated(s) == s.escalation_status = "none"

\* line 430
HasAssignedUser(s) == s.assigned_user_id # Null

\* a release that drops every claim of the staff member at once
ReleaseToZero(u) == [u EXCEPT !.current_sessions_count = 0]

\* a release that gives no slot back
ReleaseNothing(u) == u

\* a release without the floor at zero
ReleaseUnfloored(u) ==
    IF u.present THEN [u EXCEPT !.current_sessions_count = @ - 1] ELSE u

\* lines 435-436
Release(u) ==
    IF u.present /\ u.current_sessions_count > 0
    THEN [u EXCEPT !.current_sessions_count = @ - 1]
    ELSE u

\* a resolution that also clears the staff member of the session
MarkResolvedClearingStaff(s) ==
    [s EXCEPT !.escalation_status = "resolved", !.assigned_user_id = Null]

\* line 445
MarkResolved(s) == [s EXCEPT !.escalation_status = "resolved"]

\* ---- initial store ------------------------------------------------------
\* sessions are created with escalation_status 'none' (models/session.py);
\* staff are created with a zero counter (models/user.py); the availability
\* and the ceiling of each staff member are fixed during a run
NewSession(sid) ==
    [present |-> TRUE, tenant_id |-> TenantOfSession(sid),
     escalation_status |-> "none", escalation_reason |-> Null,
     assigned_user_id |-> Null, escalation_requested_at |-> Null,
     escalation_assigned_at |-> Null]

NewSupporter(uid, status, cap) ==
    [present |-> TRUE, user_id |-> uid, tenant_id |-> TenantOfUser(uid),
     role |-> "supporter", supporter_status |-> status,
     max_concurrent_sessions |-> cap, current_sessions_count |-> 0]

Idle ==
    /\ pc = [w \in Workers |-> "idle"]
    /\ op = [w \in Workers |-> NoOp]
    /\ ormSession = [w \in Workers |-> NoSession]
    /\ ormUser = [w \in Workers |-> NoUser]
    /\ result = [w \in Workers |-> NoResult]
    /\ calls = 0

Init ==
    /\ sessions = [sid \in SessionIds |-> NewSession(sid)]
    /\ \E status \in [UserIds -> AvailabilityValues], cap \in [UserIds -> 1..MaxCap] :
         users = [uid \in UserIds |-> NewSupporter(uid, status[uid], cap[uid])]
    /\ Idle

\* ---- steps shared by the calls -------------------------------------------
Goto(w, label) == pc' = [pc EXCEPT ![w] = label]

Finish(w, res) ==
    /\ result' = [result EXCEPT ![w] = res]
    /\ Goto(w, "done")

\* a request arrives at an idle worker: the call and its arguments
Call(name, sid, tid, uid, reason) ==
    [name |-> name, session_id |-> sid, tenant_id |-> tid, user_id |-> uid,
     reason |-> reason]

Begin(w, call, limit) ==
    /\ pc[w] = "idle"
    /\ calls < limit
    /\ calls' = calls + 1
    /\ op' = [op EXCEPT ![w] = call]

\* the request is over: the worker's SQLAlchemy session is closed (get_db)
Return(w) ==
    /\ pc[w] = "done"
    /\ pc' = [pc EXCEPT ![w] = "idle"]
    /\ op' = [op EXCEPT ![w] = NoOp]
    /\ ormSession' = [ormSession EXCEPT ![w] = NoSession]
    /\ ormUser' = [ormUser EXCEPT ![w] = NoUser]
    /\ result' = [result EXCEPT ![w] = NoResult]
    /\ UNCHANGED <<sessions, users, calls>>

\* ---- escalate_session ---------------------------------------------------
\* lines 138-167: the call arrives; load the session, NotFound, AlreadyEscalated
EscalateQuery(w, limit) ==
    \E sid \in SessionIds, tid \in Tenants, reason \in Reasons :
        /\ Begin(w, Call("Escalate", sid, tid, Null, reason), limit)
        /\ LET s == QuerySession(sessions, sid, tid)
           IN  /\ ormSession' = [ormSession EXCEPT ![w] = s]
               /\ IF ~s.present
                  THEN Finish(w, Failure("Session not found"))
                  ELSE IF AlreadyEscalated(s)
                       THEN Finish(w, Failure("Session already escalated"))
                       ELSE Goto(w, "esc_commit") /\ UNCHANGED result
        /\ UNCHANGED <<sessions, users, ormUser>>

\* lines 169-185: mark the session pending and commit
EscalateCommit(w) ==
    /\ pc[w] = "esc_commit"
    /\ LET sid == op[w].session_id
           new == MarkPending(ormSession[w], op[w].reason)
       IN  /\ sessions' = [sessions EXCEPT ![sid] = FlushRow(@, ormSession[w], new)]
           /\ ormSession' = [ormSession EXCEPT ![w] = new]
    /\ Goto(w, "esc_find")
    /\ UNCHANGED <<users, op, ormUser, result, calls>>

\* lines 192-205: find_available_staff, take the first of the list; the User
\* objects of the list stay in the identity map of the worker
EscalateFind(w) ==
    /\ pc[w] = "esc_find"
    /\ \E lst \in FindAvailableStaff(users, op[w].tenant_id) :
         IF Len(lst) > 0
         THEN /\ ormUser' = [ormUser EXCEPT ![w] = users[lst[1]]]
              /\ op' = [op EXCEPT ![w].user_id = lst[1]]
              /\ Goto(w, "asg_session")
         ELSE /\ UNCHANGED <<ormUser, op>>
              /\ Goto(w, "esc_refresh")
    /\ UNCHANGED <<sessions, users, ormSession, result, calls>>

\* lines 241-262: refresh the session and return the result
EscalateRefresh(w) ==
    /\ pc[w] = "esc_refresh"
    /\ LET s == sessions[op[w].session_id]
       IN  /\ ormSession' = [ormSession EXCEPT ![w] = s]
           /\ Finish(w, [success |-> TRUE, error |-> "none",
                         escalation_status |-> s.escalation_status,
                         auto_assigned |-> result[w].success,
                         assigned_user_id |->
                             IF result[w].success THEN op[w].user_id ELSE Null])
    /\ UNCHANGED <<sessions, users, op, ormUser, calls>>

\* ---- assign_user --------------------------------------------------------
\* where assign_user returns to: its caller escalate_session, or the endpoint
AssignReturn(w, call, res) ==
    /\ result' = [result EXCEPT ![w] = res]
    /\ Goto(w, IF call.name = "Escalate" THEN "esc_refresh" ELSE "done")

\* lines 297-315: load the session, NotFound, InvalidState
AssignLoadSession(w, call) ==
    LET s == QuerySession(sessions, call.session_id, call.tenant_id)
    IN  /\ ormSession' = [ormSession EXCEPT ![w] = s]
        /\ IF ~s.present
           THEN AssignReturn(w, call, Failure("Session not found"))
           ELSE IF ~Assignable(s)
                THEN AssignReturn(w, call, Failure("Session cannot be assigned"))
                ELSE Goto(w, "asg_user") /\ UNCHANGED result

\* assign_user called by the endpoint: the call arrives (AssignManually)
AssignQuerySession(w, limit) ==
    \E sid \in SessionIds, tid \in Tenants, uid \in UserIds :
        /\ Begin(w, Call("AssignManually", sid, tid, uid, Null), limit)
        /\ AssignLoadSession(w, Call("AssignManually", sid, tid, uid, Null))
        /\ UNCHANGED <<sessions, users, ormUser>>

\* assign_user called by escalate_session (line 200)
EscalateAssignQuerySession(w) ==
    /\ pc[w] = "asg_session"
    /\ AssignLoadSession(w, op[w])
    /\ UNCHANGED <<sessions, users, op, ormUser, calls>>

\* lines 317-343: load the user, check availability and capacity.  A User
\* object that find_available_staff loaded in this transaction is returned
\* from the identity map with the attributes it was loaded with.
AssignQueryUser(w) ==
    /\ pc[w] = "asg_user"
    /\ LET row == QuerySupporter(users, op[w].user_id, op[w].tenant_id)
           u   == IF row.present /\ ormUser[w].present THEN ormUser[w] ELSE row
       IN  /\ ormUser' = [ormUser EXCEPT ![w] = u]
           /\ IF ~u.present
              THEN AssignReturn(w, op[w], Failure("User not found"))
              ELSE IF ~StaffOnline(u)
                   THEN AssignReturn(w, op[w], Failure("Staff member not available"))
                   ELSE IF AtCapacity(u)
                        THEN AssignReturn(w, op[w], Failure("Staff member at capacity"))
                        ELSE Goto(w, "asg_commit") /\ UNCHANGED result
    /\ UNCHANGED <<sessions, users, op, ormSession, calls>>

\* lines 345-373: assign, increment the counter, commit.  When the row of
\* the user is gone the UPDATE of the flush matches no row, the commit
\* raises, and lines 375-386 roll back and return the failure.
AssignCommit(w) ==
    /\ pc[w] = "asg_commit"
    /\ LET sid  == op[w].session_id
           uid  == op[w].user_id
           newS == MarkAssigned(ormSession[w], uid)
           newU == Claim(ormUser[w])
       IN  IF users[uid].present
           THEN /\ sessions' = [sessions EXCEPT ![sid] = FlushRow(@, ormSession[w], newS)]
                /\ users' = [users EXCEPT ![uid] = FlushRow(@, ormUser[w], newU)]
                /\ ormSession' = [ormSession EXCEPT ![w] = newS]
                /\ ormUser' = [ormUser EXCEPT ![w] = newU]
                /\ AssignReturn(w, op[w], [success |-> TRUE, error |-> "none",
                                    escalation_status |-> newS.escalation_status,
                                    auto_assigned |-> FALSE, assigned_user_id |-> uid])
           ELSE /\ UNCHANGED <<sessions, users, ormSession>>
                /\ ormUser' = [ormUser EXCEPT ![w] = NoUser]
                /\ AssignReturn(w, op[w], Failure("Failed to assign user"))
    /\ UNCHANGED <<op, calls>>

\* ---- resolve_escalation -------------------------------------------------
\* lines 410-427: the call arrives; load the session, NotFound, NotEscalated
ResolveQuery(w, limit) ==
    \E sid \in SessionIds, tid \in Tenants :
        /\ Begin(w, Call("Resolve", sid, tid, Null, Null), limit)
        /\ LET s == QuerySession(sessions, sid, tid)
           IN  /\ ormSession' = [ormSession EXCEPT ![w] = s]
               /\ IF ~s.present
                  THEN Finish(w, Failure("Session not found"))
                  ELSE IF NotEscalated(s)
                       THEN Finish(w, Failure("Session is not escalated"))
                       ELSE /\ Goto(w, IF HasAssignedUser(s) THEN "res_user"
                                                             ELSE "res_commit")
                            /\ UNCHANGED result
        /\ UNCHANGED <<sessions, users, ormUser>>

\* lines 430-433: load the assigned user
ResolveQueryUser(w) ==
    /\ pc[w] = "res_user"
    /\ ormUser' = [ormUser EXCEPT ![w] = QueryUserById(users, ormSession[w].assigned_user_id)]
    /\ Goto(w, "res_commit")
    /\ UNCHANGED <<sessions, users, op, ormSession, result, calls>>

\* lines 435-469: decrement the counter, mark resolved, commit
ResolveCommit(w) ==
    /\ pc[w] = "res_commit"
    /\ LET sid  == op[w].session_id
           newS == MarkResolved(ormSession[w])
           newU == Release(ormUser[w])
       IN  /\ sessions' = [sessions EXCEPT ![sid] = FlushRow(@, ormSession[w], newS)]
           /\ users' = IF ormUser[w].present
                       THEN [users EXCEPT ![ormUser[w].user_id] =
                                 FlushRow(@, ormUser[w], newU)]
                       ELSE users
           /\ ormSession' = [ormSession EXCEPT ![w] = newS]
           /\ ormUser' = [ormUser EXCEPT ![w] = newU]
           /\ Finish(w, [success |-> TRUE, error |-> "none",
                         escalation_status |-> newS.escalation_status,
                         auto_assigned |-> FALSE, assigned_user_id |-> Null])
    /\ UNCHANGED <<op, calls>>

\* ---- the service --------------------------------------------------------
\* the workers serve requests concurrently, their steps interleave
Next ==
    \E w \in Workers :
        \/ EscalateQuery(w, MaxCalls)
        \/ EscalateCommit(w)
        \/ EscalateFind(w)
        \/ EscalateAssignQuerySession(w)
        \/ EscalateRefresh(w)
        \/ AssignQuerySession(w, MaxCalls)
        \/ AssignQueryUser(w)
        \/ AssignCommit(w)
        \/ ResolveQuery(w, MaxCalls)
        \/ ResolveQueryUser(w)
        \/ ResolveCommit(w)
        \/ Return(w)

Spec == Init /\ [][Next]_vars

\* one call at a time: a single worker serves every request
NextSeq ==
    \/ EscalateQuery(1, MaxSeqCalls)
    \/ EscalateCommit(1)
    \/ EscalateFind(1)
    \/ EscalateAssignQuerySession(1)
    \/ EscalateRefresh(1)
    \/ AssignQuerySession(1, MaxSeqCalls)
    \/ AssignQueryUser(1)
    \/ AssignCommit(1)
    \/ ResolveQuery(1, MaxSeqCalls)
    \/ ResolveQueryUser(1)
    \/ ResolveCommit(1)
    \/ Return(1)

SpecSeq == Init /\ [][NextSeq]_vars

\* ---- the endpoints of api/admin/escalation.py ---------------------------
\* the caller of the resolve endpoint: an admin, or the supporter `sub`
Admin == Null

Callers == UserIds \cup {Admin}

\* an ownership check that is skipped
OwnershipDeniedNever(s, caller) == FALSE

\* lines 371-373: a supporter who is not admin may resolve own sessions only
OwnershipDenied(s, caller) ==
    caller # Admin /\ s.assigned_user_id # caller

\* lines 353-389: the request arrives; load the session by its id alone,
\* 404 if there is none, 403 if a supporter does not own it
ResolveEndpointQuery(w, limit) ==
    \E sid \in SessionIds, tid \in Tenants, caller \in Callers :
        /\ Begin(w, Call(IF caller = Admin THEN "ResolveByAdmin"
                                           ELSE "ResolveBySupporter",
                         sid, tid, caller, Null), limit)
        /\ LET s == QuerySessionById(sessions, sid)
           IN  /\ ormSession' = [ormSession EXCEPT ![w] = s]
               /\ IF ~s.present
                  THEN Finish(w, Failure("Session not found"))
                  ELSE IF OwnershipDenied(s, caller)
                       THEN Finish(w, Failure("Supporters can only resolve sessions assigned to them"))
                       ELSE Goto(w, "res_session") /\ UNCHANGED result
        /\ UNCHANGED <<sessions, users, ormUser>>

\* lines 392-397 calling resolve_escalation lines 410-427: the query finds
\* the row by session id and tenant; the ChatSession object is the one the
\* endpoint loaded, with the attributes it was loaded with
ResolveEndpointService(w) ==
    /\ pc[w] = "res_session"
    /\ LET found == QuerySession(sessions, op[w].session_id, op[w].tenant_id).present
           s     == ormSession[w]
       IN  IF ~found
           THEN Finish(w, Failure("Session not found"))
           ELSE IF NotEscalated(s)
                THEN Finish(w, Failure("Session is not escalated"))
                ELSE /\ Goto(w, IF HasAssignedUser(s) THEN "res_user"
                                                      ELSE "res_commit")
                     /\ UNCHANGED result
    /\ UNCHANGED <<sessions, users, op, ormSession, ormUser, calls>>

\* lines 651-678: get_available_staff returns the rows of find_available_staff
ListAvailableStaff(w, limit) ==
    \E tid \in Tenants :
        /\ Begin(w, Call("ListAvailableStaff", Null, tid, Null, Null), limit)
        /\ \E lst \in FindAvailableStaff(users, tid) :
             Finish(w, [success |-> TRUE,
                        available_staff |-> [i \in DOMAIN lst |-> users[lst[i]]],
                        total |-> Len(lst)])
        /\ UNCHANGED <<sessions, users, ormSession, ormUser>>

\* the service behind its endpoints: every Resolve comes through the resolve
\* endpoint
NextApi ==
    \E w \in Workers :
        \/ EscalateQuery(w, MaxCalls)
        \/ EscalateCommit(w)
        \/ EscalateFind(w)
        \/ EscalateAssignQuerySession(w)
        \/ EscalateRefresh(w)
        \/ AssignQuerySession(w, MaxCalls)
        \/ AssignQueryUser(w)
        \/ AssignCommit(w)
        \/ ResolveEndpointQuery(w, MaxCalls)
        \/ ResolveEndpointService(w)
        \/ ResolveQueryUser(w)
        \/ ResolveCommit(w)
        \/ ListAvailableStaff(w, MaxCalls)
        \/ Return(w)

SpecApi == Init /\ [][NextApi]_vars

\* ---- the scenario "queue, release, manual assignment" --------------------
\* staff 1 has one free slot, staff 2 stands at its ceiling with sessions
\* that are not among the modelled ones, both are online or available; any
\* further staff member is offline
InitScenario ==
    /\ sessions = [sid \in SessionIds |-> NewSession(sid)]
    /\ \E status \in [{1, 2} -> EligibleStatuses], cap \in [{1, 2} -> 1..MaxCap] :
         users = [uid \in UserIds |->
                    IF uid = 1
                    THEN [NewSupporter(1, status[1], cap[1])
                             EXCEPT !.current_sessions_count = cap[1] - 1]
                    ELSE IF uid = 2
                         THEN [NewSupporter(2, status[2], cap[2])
                                  EXCEPT !.current_sessions_count = cap[2]]
                         ELSE NewSupporter(uid, "offline", 1)]
    /\ Idle

\* the calls of the scenario, in the order they are made
Script ==
    <<Call("Escalate", 1, 1, Null, 1),
      Call("Escalate", 2, 1, Null, 1),
      Call("Resolve", 1, 1, Null, Null),
      Call("AssignManually", 2, 1, 1, Null)>>

\* the call that arrives is the next call of the script
Scripted == calls < Len(Script) => op'[1] = Script[calls + 1]

NextScenario ==
    \/ EscalateQuery(1, MaxSeqCalls) /\ Scripted
    \/ EscalateCommit(1)
    \/ EscalateFind(1)
    \/ EscalateAssignQuerySession(1)
    \/ EscalateRefresh(1)
    \/ AssignQuerySession(1, MaxSeqCalls) /\ Scripted
    \/ AssignQueryUser(1)
    \/ AssignCommit(1)
    \/ ResolveQuery(1, MaxSeqCalls) /\ Scripted
    \/ ResolveQueryUser(1)
    \/ ResolveCommit(1)
    \/ Return(1)

SpecScenario == InitScenario /\ [][NextScenario]_vars

\* ---- detect_auto_escalation ----------------------------------------------
\* a Python str is the sequence of its characters
UpperLetters ==
    <<"A", "B", "C", "D", "E", "F", "G", "H", "I", "J", "K", "L", "M",
      "N", "O", "P", "Q", "R", "S", "T", "U", "V", "W", "X", "Y", "Z">>

LowerLetters ==
    <<"a", "b", "c", "d", "e", "f", "g", "h", "i", "j", "k", "l", "m",
      "n", "o", "p", "q", "r", "s", "t", "u", "v", "w", "x", "y", "z">>

\* str.lower(), character by character
LowerChar(c) ==
    IF \E i \in DOMAIN UpperLetters : UpperLetters[i] = c
    THEN LowerLetters[CHOOSE i \in DOMAIN UpperLetters : UpperLetters[i] = c]
    ELSE c

StrLower(s) == [i \in 1..Len(s) |-> LowerChar(s[i])]

\* the operator `in` of two strings: needle occurs in hay as a substring
Contains(needle, hay) ==
    \E k \in 0..(Len(hay) - Len(needle)) :
        SubSeq(hay, k + 1, k + Len(needle)) = needle

\* lines 25-38
DEFAULT_ESCALATION_KEYWORDS ==
    <<<<"u", "r", "g", "e", "n", "t">>,
      <<"e", "m", "e", "r", "g", "e", "n", "c", "y">>,
      <<"a", "s", "a", "p">>,
      <<"i", "m", "m", "e", "d", "i", "a", "t", "e", "l", "y">>,
      <<"c", "r", "i", "t", "i", "c", "a", "l">>,
      <<"h", "e", "l", "p">>,
      <<"a", "s", "s", "i", "s", "t", "a", "n", "t">>,
      <<"s", "u", "p", "p", "o", "r", "t">>,
      <<"a", "n", "g", "r", "y">>,
      <<"f", "r", "u", "s", "t", "r", "a", "t", "e", "d">>,
      <<"u", "p", "s", "e", "t">>,
      <<"a", "n", "n", "o", "y", "e", "d">>,
      <<"i", "r", "r", "i", "t", "a", "t", "e", "d">>,
      <<"u", "n", "a", "c", "c", "e", "p", "t", "a", "b", "l", "e">>,
      <<"r", "i", "d", "i", "c", "u", "l", "o", "u", "s">>,
      <<"t", "e", "r", "r", "i", "b", "l", "e">>,
      <<"a", "w", "f", "u", "l">>,
      <<"b", "r", "o", "k", "e", "n">>,
      <<"c", "r", "a", "s", "h">>,
      <<"e", "r", "r", "o", "r">>,
      <<"n", "o", "t", " ", "w", "o", "r", "k", "i", "n", "g">>,
      <<"f", "a", "i", "l">>,
      <<"d", "o", "w", "n">>,
      <<"o", "f", "f", "l", "i", "n", "e">>,
      <<"i", "s", "s", "u", "e">>,
      <<"p", "r", "o", "b", "l", "e", "m">>,
      <<"m", "a", "n", "a", "g", "e", "r">>,
      <<"s", "u", "p", "e", "r", "v", "i", "s", "o", "r">>,
      <<"e", "s", "c", "a", "l", "a", "t", "e">>,
      <<"e", "s", "c", "a", "l", "a", "t", "i", "o", "n">>,
      <<"s", "p", "e", "a", "k", " ", "t", "o">>,
      <<"t", "a", "l", "k", " ", "t", "o">>,
      <<"h", "u", "m", "a", "n">>,
      <<"p", "e", "r", "s", "o", "n">>>>

\* the fractions n/3.0 and 1.0 as pairs <<numerator, denominator>>
Ratio(a, b) == <<a, b>>

RatioLeq(p, q) == p[1] * q[2] <= q[1] * p[2]

\* min(p, q) of Python: q if q < p, else p
MinRatio(p, q) == IF RatioLeq(p, q) THEN p ELSE q

\* a confidence that is not capped
ConfidenceUncapped(n) == Ratio(n, 3)

\* line 79: min(len(detected) / 3.0, 1.0)
Confidence(n) == MinRatio(Ratio(n, 3), Ratio(1, 1))

\* lines 67-99: the keywords of the list, in the order of the list, whose
\* lower case occurs in the lower case of the message
DetectAutoEscalation(message, custom_keywords) ==
    LET message_lower     == StrLower(message)
        keywords_to_check == DEFAULT_ESCALATION_KEYWORDS \o custom_keywords
        Hit(keyword)      == Contains(StrLower(keyword), message_lower)
        detected          == SelectSeq(keywords_to_check, Hit)
        n                 == Len(detected)
    IN  [should_escalate   |-> n > 0,
         detected_keywords |-> detected,
         confidence        |-> Confidence(n),
         reason            |-> IF n > 0
                               THEN [count |-> n,
                                     listed |-> SubSeq(detected, 1,
                                                  IF n < 3 THEN n ELSE 3)]
                               ELSE [count |-> 0, listed |-> <<>>]]

\* ---- the inputs of the detector ------------------------------------------
\* messages are made of at most MaxTokens of these words, a space after each
Tokens ==
    {<<"h", "e", "l", "p", " ">>, <<"U", "R", "G", "E", "N", "T", " ">>,
     <<"o", "k", " ">>}

\* the keyword lists a tenant supplies: at most MaxCustom of these words
CustomWords ==
    {<<"h", "e", "l", "p">>, <<"O", "k">>, <<"r", "e", "f", "u", "n", "d">>}

RECURSIVE Concat(_)
Concat(pieces) ==
    IF pieces = <<>> THEN <<>> ELSE Head(pieces) \o Concat(Tail(pieces))

SeqsUpTo(S, n) == UNION {[1..k -> S] : k \in 0..n}

Messages == {Concat(pieces) : pieces \in SeqsUpTo(Tokens, MaxTokens)}

CustomKeywordLists == SeqsUpTo(CustomWords, MaxCustom)

\* ---- the detect endpoint -------------------------------------------------
\* api/admin/escalation.py lines 99-116: the request arrives and is answered
\* with the result of detect_auto_escalation; no store is read or written
Detect(w, limit) ==
    \E message \in Messages, custom \in CustomKeywordLists :
        /\ Begin(w, [name |-> "Detect", message |-> message,
                     custom_keywords |-> custom], limit)
        /\ Finish(w, DetectAutoEscalation(message, custom))
        /\ UNCHANGED <<sessions, users, ormSession, ormUser>>

\* the store plays no part: no staff member is on duty
InitDetect ==
    /\ sessions = [sid \in SessionIds |-> NewSession(sid)]
    /\ users = [uid \in UserIds |-> NewSupporter(uid, "offline", MaxCap)]
    /\ Idle

NextDetect ==
    \/ Detect(1, MaxDetectCalls)
    \/ Return(1)

SpecDetect == InitDetect /\ [][NextDetect]_vars

\* ---- the other requests that write the tables --------------------------
\* api/sessions.py end_session ends a chat session; api/auth.py create_user
\* and delete_user administer the staff
\* CreateUserRequest.role
Roles == {"supporter", "admin"}

\* api/auth.py line 488: the ceiling given to every created user
CreatedCeiling == 50

\* api/auth.py lines 478-491: the row of a created user
NewUser(uid, tid, role) ==
    [present |-> TRUE, user_id |-> uid, tenant_id |-> tid, role |-> role,
     supporter_status |-> "online", max_concurrent_sessions |-> CreatedCeiling,
     current_sessions_count |-> 0]

\* the place of a deleted row: its uuid is never given to another user
Deleted(uid) == [NoUser EXCEPT !.user_id = uid]

\* fk_sessions_assigned_user_users: sessions.assigned_user_id -> users.user_id
Referenced(uid) == \E sid \in SessionIds : sessions[sid].assigned_user_id = uid

\* a creation that gives the sessions waiting in the queue to the new
\* staff member
CreateUserTakingQueue(w, limit) ==
    \E uid \in UserIds, tid \in Tenants, role \in Roles :
        /\ users[uid] = NoUser
        /\ Begin(w, Call("CreateUser", Null, tid, uid, Null), limit)
        /\ users' = [users EXCEPT ![uid] = NewUser(uid, tid, role)]
        /\ sessions' = [s \in SessionIds |->
                          IF sessions[s].escalation_status = "pending"
                               /\ sessions[s].tenant_id = tid /\ role = "supporter"
                          THEN MarkAssigned(sessions[s], uid)
                          ELSE sessions[s]]
        /\ Finish(w, [success |-> TRUE, error |-> "none", escalation_status |-> "none",
                      auto_assigned |-> FALSE, assigned_user_id |-> uid])
        /\ UNCHANGED <<ormSession, ormUser>>

\* api/auth.py lines 434-507: an admin of tenant tid creates a user; the row
\* gets a fresh uuid and is committed
CreateUser(w, limit) ==
    \E uid \in UserIds, tid \in Tenants, role \in Roles :
        /\ users[uid] = NoUser
        /\ Begin(w, Call("CreateUser", Null, tid, uid, Null), limit)
        /\ users' = [users EXCEPT ![uid] = NewUser(uid, tid, role)]
        /\ Finish(w, [success |-> TRUE, error |-> "none", escalation_status |-> "none",
                      auto_assigned |-> FALSE, assigned_user_id |-> uid])
        /\ UNCHANGED <<sessions, ormSession, ormUser>>

\* api/auth.py lines 701-738: an admin of tenant tid deletes a user; the
\* DELETE of a row that a session refers to violates the foreign key, the
\* commit raises and the request ends with 500
DeleteUser(w, limit) ==
    \E uid \in UserIds, tid \in Tenants :
        /\ Begin(w, Call("DeleteUser", Null, tid, uid, Null), limit)
        /\ LET user == QueryUserById(users, uid)
           IN  IF ~user.present
               THEN Finish(w, Failure("User not found")) /\ UNCHANGED users
               ELSE IF user.tenant_id # tid
                    THEN Finish(w, Failure("Access denied")) /\ UNCHANGED users
                    ELSE IF Referenced(uid)
                         THEN Finish(w, Failure("Failed to delete user"))
                                  /\ UNCHANGED users
                         ELSE /\ users' = [users EXCEPT ![uid] = Deleted(uid)]
                              /\ Finish(w, [NoResult EXCEPT !.success = TRUE])
        /\ UNCHANGED <<sessions, ormSession, ormUser>>

\* api/sessions.py line 373
MarkEnded(s) == [s EXCEPT !.escalation_status = "resolved"]

\* api/sessions.py lines 356-370: the request arrives; load the session
EndSessionQuery(w, limit) ==
    \E sid \in SessionIds, tid \in Tenants :
        /\ Begin(w, Call("EndSession", sid, tid, Null, Null), limit)
        /\ LET s == QuerySession(sessions, sid, tid)
           IN  /\ ormSession' = [ormSession EXCEPT ![w] = s]
               /\ IF ~s.present
                  THEN Finish(w, Failure("Session not found"))
                  ELSE Goto(w, "end_commit") /\ UNCHANGED result
        /\ UNCHANGED <<sessions, users, ormUser>>

\* api/sessions.py lines 372-394: mark the session resolved and commit
EndSessionCommit(w) ==
    /\ pc[w] = "end_commit"
    /\ LET sid == op[w].session_id
           new == MarkEnded(ormSession[w])
       IN  /\ sessions' = [sessions EXCEPT ![sid] = FlushRow(@, ormSession[w], new)]
           /\ ormSession' = [ormSession EXCEPT ![w] = new]
           /\ Finish(w, [success |-> TRUE, error |-> "none",
                         escalation_status |-> new.escalation_status,
                         auto_assigned |-> FALSE, assigned_user_id |-> Null])
    /\ UNCHANGED <<users, op, ormUser, calls>>

\* the store when the requests start: each staff member has been created
\* or not yet
InitOps ==
    /\ sessions = [sid \in SessionIds |-> NewSession(sid)]
    /\ \E status \in [UserIds -> AvailabilityValues], cap \in [UserIds -> 1..MaxCap],
          there \in [UserIds -> BOOLEAN] :
         users = [uid \in UserIds |->
                    IF there[uid] THEN NewSupporter(uid, status[uid], cap[uid])
                                  ELSE NoUser]
    /\ Idle

\* the service together with the other requests that write its tables
NextOps ==
    \E w \in Workers :
        \/ EscalateQuery(w, MaxOpsCalls)
        \/ EscalateCommit(w)
        \/ EscalateFind(w)
        \/ EscalateAssignQuerySession(w)
        \/ EscalateRefresh(w)
        \/ AssignQuerySession(w, MaxOpsCalls)
        \/ AssignQueryUser(w)
        \/ AssignCommit(w)
        \/ ResolveQuery(w, MaxOpsCalls)
        \/ ResolveQueryUser(w)
        \/ ResolveCommit(w)
        \/ EndSessionQuery(w, MaxOpsCalls)
        \/ EndSessionCommit(w)
        \/ CreateUser(w, MaxOpsCalls)
        \/ DeleteUser(w, MaxOpsCalls)
        \/ Return(w)

SpecOps == InitOps /\ [][NextOps]_vars

\* ---- the store fails ------------------------------------------------------
\* a query, a commit or a refresh raises (the store is unavailable); what
\* the except clauses of the service make of it
FailedTo(name) ==
    IF name = "Escalate" THEN "Failed to escalate session"
    ELSE IF name = "AssignManually" THEN "Failed to assign user"
    ELSE "Failed to resolve escalation"

\* the first query of a call raises: rollback and the failure result
\* (lines 264-275, 375-386, 471-481)
StoreFailsOnArrival(w, limit) ==
    \E name \in {"Escalate", "AssignManually", "Resolve"},
       sid \in SessionIds, tid \in Tenants, uid \in UserIds, reason \in Reasons :
        /\ Begin(w, Call(name, sid, tid,
                         IF name = "AssignManually" THEN uid ELSE Null,
                         IF name = "Escalate" THEN reason ELSE Null), limit)
        /\ Finish(w, Failure(FailedTo(name)))
        /\ UNCHANGED <<sessions, users, ormSession, ormUser>>

\* the commit of line 185 raises: lines 264-275 roll back
EscalateCommitFails(w) ==
    /\ pc[w] = "esc_commit"
    /\ Finish(w, Failure(FailedTo("Escalate")))
    /\ UNCHANGED <<sessions, users, op, ormSession, ormUser, calls>>

\* the query of find_available_staff raises: lines 524-530 return [] and
\* escalate_session goes on as if nobody were available (lines 225-231)
EscalateFindFails(w) ==
    /\ pc[w] = "esc_find"
    /\ Goto(w, "esc_refresh")
    /\ UNCHANGED <<sessions, users, op, ormSession, ormUser, result, calls>>

\* a query or the commit of assign_user raises: lines 375-386 roll back and
\* return the failure to the caller
AssignStoreFails(w) ==
    /\ pc[w] \in {"asg_session", "asg_user", "asg_commit"}
    /\ AssignReturn(w, op[w], Failure(FailedTo("AssignManually")))
    /\ UNCHANGED <<sessions, users, op, ormSession, ormUser, calls>>

\* db.refresh of line 242 raises: lines 264-275 roll back (the commit of
\* line 185 and the commit of assign_user stay) and return the failure
EscalateRefreshFails(w) ==
    /\ pc[w] = "esc_refresh"
    /\ Finish(w, Failure(FailedTo("Escalate")))
    /\ UNCHANGED <<sessions, users, op, ormSession, ormUser, calls>>

\* the user query or the commit of resolve_escalation raises: lines 471-481
ResolveStoreFails(w) ==
    /\ pc[w] \in {"res_user", "res_commit"}
    /\ Finish(w, Failure(FailedTo("Resolve")))
    /\ UNCHANGED <<sessions, users, op, ormSession, ormUser, calls>>

\* one call at a time over a store that may fail at any statement
NextFaulty ==
    \/ EscalateQuery(1, MaxSeqCalls)
    \/ EscalateCommit(1)
    \/ EscalateFind(1)
    \/ EscalateAssignQuerySession(1)
    \/ EscalateRefresh(1)
    \/ AssignQuerySession(1, MaxSeqCalls)
    \/ AssignQueryUser(1)
    \/ AssignCommit(1)
    \/ ResolveQuery(1, MaxSeqCalls)
    \/ ResolveQueryUser(1)
    \/ ResolveCommit(1)
    \/ StoreFailsOnArrival(1, MaxSeqCalls)
    \/ EscalateCommitFails(1)
    \/ EscalateFindFails(1)
    \/ AssignStoreFails(1)
    \/ EscalateRefreshFails(1)
    \/ ResolveStoreFails(1)
    \/ Return(1)

SpecFaulty == Init /\ [][NextFaulty]_vars

\* ---- the scenario "release at zero" ---------------------------------------
\* two sessions are escalated and resolved, the first one twice: the second
\* Resolve of session 1 takes a slot from its staff member once more, so
\* that session 2 can be 'assigned' to a staff member whose counter is 0
ScriptFloor ==
    <<Call("Escalate", 1, 1, Null, 1),
      Call("Resolve", 1, 1, Null, Null),
      Call("Escalate", 2, 1, Null, 1),
      Call("Resolve", 1, 1, Null, Null),
      Call("Resolve", 2, 1, Null, Null)>>

ScriptedFloor == calls < Len(ScriptFloor) => op'[1] = ScriptFloor[calls + 1]

NextFloor ==
    \/ EscalateQuery(1, Len(ScriptFloor)) /\ ScriptedFloor
    \/ EscalateCommit(1)
    \/ EscalateFind(1)
    \/ EscalateAssignQuerySession(1)
    \/ EscalateRefresh(1)
    \/ AssignQueryUser(1)
    \/ AssignCommit(1)
    \/ ResolveQuery(1, Len(ScriptFloor)) /\ ScriptedFloor
    \/ ResolveQueryUser(1)
    \/ ResolveCommit(1)
    \/ Return(1)

SpecFloor == Init /\ [][NextFloor]_vars

\* ==== properties ==========================================================
Count(uid) == users[uid].current_sessions_count
Ceiling(uid) == users[uid].max_concurrent_sessions
Online(uid) == users[uid].supporter_status \in {"online", "available"}
Eligible(uid, tid) ==
    /\ users[uid].tenant_id = tid
    /\ users[uid].role = "supporter"
    /\ Online(uid)
    /\ Count(uid) < Ceiling(uid)

\* the sessions that are 'assigned' to staff member uid
AssignedTo(uid) ==
    {sid \in SessionIds : /\ sessions[sid].escalation_status = "assigned"
                          /\ sessions[sid].assigned_user_id = uid}

\* no call is between its first query and its return
Quiescent == \A w \in Workers : pc[w] \in {"idle", "done"}

\* worker w takes a step from position `from`
Leaves(w, from) == pc[w] = from /\ pc'[w] # from

\* C1: whenever every started Escalate, AssignManually and Resolve call has
\* completed, the counter of every staff member equals the number of sessions
\* that are 'assigned' to that staff member.
C1_CounterEqualsAssigned ==
    Quiescent => \A uid \in UserIds : Count(uid) = Cardinality(AssignedTo(uid))

\* C2: when one Escalate call per worker has run, on distinct sessions that
\* were 'none', and the only eligible staff member had exactly one free slot,
\* then exactly one of the sessions is 'assigned', the others are 'pending',
\* and the counter of that staff member equals its ceiling.
C2_Scenario ==
    /\ calls = NumWorkers
    /\ \A w \in Workers : /\ pc[w] = "done"
                          /\ op[w].name = "Escalate"
                          /\ result[w].success
    /\ \A v, w \in Workers : v # w => op[v].session_id # op[w].session_id
    /\ \E uid \in UserIds : /\ Online(uid)
                            /\ Ceiling(uid) = 1
                            /\ \A other \in UserIds \ {uid} : ~Online(other)

C2_ExactlyOneClaimsLastSlot ==
    C2_Scenario =>
        LET escalated == {op[w].session_id : w \in Workers}
            assigned  == {sid \in escalated :
                              sessions[sid].escalation_status = "assigned"}
        IN  /\ Cardinality(assigned) = 1
            /\ \A sid \in escalated \ assigned :
                   sessions[sid].escalation_status = "pending"
            /\ \A uid \in UserIds : Online(uid) => Count(uid) = Ceiling(uid)

\* C3: in every reachable state the number of sessions 'assigned' to a staff
\* member is at most the ceiling max_concurrent_sessions of that staff member.
C3_AssignedWithinCeiling ==
    \A uid \in UserIds : Cardinality(AssignedTo(uid)) <= Ceiling(uid)

\* C4: in every reachable state every staff member has
\* 0 <= current_sessions_count <= max_concurrent_sessions.
C4_LoadBound ==
    \A uid \in UserIds : 0 <= Count(uid) /\ Count(uid) <= Ceiling(uid)

\* two concurrent claims took the last slot of a staff member: the counter
\* stands at the ceiling while more sessions are assigned
C4_Witness ==
    \E uid \in UserIds : /\ Count(uid) = Ceiling(uid)
                         /\ Cardinality(AssignedTo(uid)) > Ceiling(uid)

\* C5: a Resolve of a session that is already 'resolved' (a repeated Resolve)
\* leaves every staff counter unchanged.
C5_RepeatedResolveKeepsCounters ==
    [][\A w \in Workers :
          (Leaves(w, "res_commit") /\ ormSession[w].escalation_status = "resolved")
              => users' = users]_vars

ForwardMoves ==
    {<<"none", "pending">>, <<"pending", "assigned">>,
     <<"pending", "resolved">>, <<"assigned", "resolved">>}

C7_StatusMovesForward ==
    [][\A sid \in SessionIds :
          \/ sessions'[sid].escalation_status = sessions[sid].escalation_status
          \/ <<sessions[sid].escalation_status, sessions'[sid].escalation_status>>
                 \in ForwardMoves]_vars

\* C8: when assign_user commits on a session that is 'assigned' to staff X
\* and gives it to staff Y, the counter of X decreases by one and the counter
\* of Y increases by one; when Y = X the counter of X is unchanged.
C8_ReassignReleasesOldClaim ==
    [][\A w \in Workers :
          LET row == sessions[op[w].session_id]
              X   == row.assigned_user_id
              Y   == op[w].user_id
          IN  (Leaves(w, "asg_commit") /\ row.escalation_status = "assigned")
                  => IF X = Y
                     THEN users'[X].current_sessions_count = Count(X)
                     ELSE /\ users'[X].current_sessions_count = Count(X) - 1
                          /\ users'[Y].current_sessions_count = Count(Y) + 1]_vars

\* C9: the step in which an Escalate call arrives for a session that is
\* absent ends the call with the failure "Session not found", and for a
\* session whose status is 'pending', 'assigned' or 'resolved' with the
\* failure "Session already escalated"; the step changes no session and no
\* staff row, and neither does the return of a call.
C9_EscalateRejectedChangesNothing ==
    [][\A w \in Workers :
          /\ (Leaves(w, "idle") /\ op'[w].name = "Escalate") =>
                LET row   == sessions[op'[w].session_id]
                    found == row.tenant_id = op'[w].tenant_id
                IN  /\ ~found =>
                          /\ pc'[w] = "done"
                          /\ ~result'[w].success
                          /\ result'[w].error = "Session not found"
                          /\ UNCHANGED <<sessions, users>>
                    /\ (found /\ row.escalation_status
                                    \in {"pending", "assigned", "resolved"}) =>
                          /\ pc'[w] = "done"
                          /\ ~result'[w].success
                          /\ result'[w].error = "Session already escalated"
                          /\ UNCHANGED <<sessions, users>>
          /\ Leaves(w, "done") => UNCHANGED <<sessions, users>>]_vars

\* an Escalate call on a resolved session has been rejected
C9_Witness ==
    \E w \in Workers :
        /\ pc[w] = "done"
        /\ op[w].name = "Escalate"
        /\ result[w].error = "Session already escalated"
        /\ sessions[op[w].session_id].escalation_status = "resolved"

\* C10: with one call at a time, an Escalate call fails only if the session
\* is absent or its status is not 'none'; when the candidate search runs
\* while no staff member of the tenant is eligible, the call claims nothing,
\* goes on to return, and returns success with the session 'pending', no
\* assigned staff, escalation_requested_at set, and no staff row changed.
C10_EscalateSucceedsWithoutStaff ==
    /\ [](\A w \in Workers :
            (pc[w] = "done" /\ op[w].name = "Escalate") =>
                /\ ~result[w].success =>
                      \/ ~ormSession[w].present
                      \/ ormSession[w].escalation_status # "none"
                /\ (result[w].success /\ ~ormUser[w].present) =>
                      /\ ~result[w].auto_assigned
                      /\ result[w].assigned_user_id = Null
                      /\ result[w].escalation_status = "pending"
                      /\ sessions[op[w].session_id].escalation_status = "pending"
                      /\ sessions[op[w].session_id].assigned_user_id = Null
                      /\ sessions[op[w].session_id].escalation_requested_at # Null)
    /\ [][\A w \in Workers :
            /\ (Leaves(w, "esc_find")
                  /\ \A uid \in UserIds : ~Eligible(uid, op[w].tenant_id)) =>
                    /\ pc'[w] = "esc_refresh"
                    /\ ~ormUser'[w].present
                    /\ UNCHANGED <<sessions, users>>
            /\ Leaves(w, "esc_refresh") =>
                    /\ pc'[w] = "done"
                    /\ result'[w].success
                    /\ UNCHANGED <<sessions, users>>]_vars

\* an Escalate call has returned with the session queued while every staff
\* member is offline or at its ceiling, one of them online at its ceiling
C10_Witness ==
    \E w \in Workers :
        /\ pc[w] = "done"
        /\ op[w].name = "Escalate"
        /\ result[w].success
        /\ ~result[w].auto_assigned
        /\ sessions[op[w].session_id].escalation_status = "pending"
        /\ \A uid \in UserIds : ~Eligible(uid, op[w].tenant_id)
        /\ \E uid \in UserIds : Online(uid) /\ Count(uid) = Ceiling(uid)

\* C11: with one call at a time, an Escalate call on a session that is 'none'
\* while the tenant has an eligible staff member takes, in its candidate
\* search, an eligible staff member whose counter is minimal among the
\* eligible ones; it then passes every guard of assign_user, its commit sets
\* the session 'assigned' to that staff member, raises that counter by exactly
\* one and changes no other staff row, and the call returns success naming
\* that staff member as auto-assigned.
C11_EscalateAssignsLeastLoaded ==
    [][\A w \in Workers :
          LET tid == op[w].tenant_id
              sid == op[w].session_id
              uid == op[w].user_id
          IN  /\ (Leaves(w, "idle") /\ op'[w].name = "Escalate"
                    /\ sessions[op'[w].session_id].tenant_id = op'[w].tenant_id
                    /\ sessions[op'[w].session_id].escalation_status = "none")
                  => pc'[w] = "esc_commit"
              /\ Leaves(w, "esc_commit")
                  => pc'[w] = "esc_find" /\ users' = users
              /\ (Leaves(w, "esc_find") /\ \E e \in UserIds : Eligible(e, tid))
                  => /\ pc'[w] = "asg_session"
                     /\ Eligible(op'[w].user_id, tid)
                     /\ \A e \in UserIds :
                            Eligible(e, tid) => Count(op'[w].user_id) <= Count(e)
                     /\ UNCHANGED <<sessions, users>>
              /\ (Leaves(w, "asg_session") /\ op[w].name = "Escalate")
                  => pc'[w] = "asg_user" /\ UNCHANGED <<sessions, users>>
              /\ (Leaves(w, "asg_user") /\ op[w].name = "Escalate")
                  => pc'[w] = "asg_commit" /\ UNCHANGED <<sessions, users>>
              /\ (Leaves(w, "asg_commit") /\ op[w].name = "Escalate")
                  => /\ pc'[w] = "esc_refresh"
                     /\ sessions'[sid].escalation_status = "assigned"
                     /\ sessions'[sid].assigned_user_id = uid
                     /\ \A s \in SessionIds \ {sid} : sessions'[s] = sessions[s]
                     /\ users'[uid].current_sessions_count = Count(uid) + 1
                     /\ \A u \in UserIds \ {uid} : users'[u] = users[u]
              /\ (Leaves(w, "esc_refresh") /\ ormUser[w].present)
                  => /\ pc'[w] = "done"
                     /\ result'[w].success
                     /\ result'[w].auto_assigned
                     /\ result'[w].assigned_user_id = uid
                     /\ result'[w].escalation_status = "assigned"
                     /\ sessions[sid].assigned_user_id = uid
                     /\ UNCHANGED <<sessions, users>>]_vars

\* an Escalate call has returned with the session auto-assigned to the staff
\* member that had the fewest sessions, while another eligible one had more
C11_Witness ==
    \E w \in Workers :
        /\ pc[w] = "done"
        /\ op[w].name = "Escalate"
        /\ result[w].success
        /\ result[w].auto_assigned
        /\ sessions[op[w].session_id].escalation_status = "assigned"
        /\ sessions[op[w].session_id].assigned_user_id = result[w].assigned_user_id
        /\ \E other \in UserIds \ {result[w].assigned_user_id} :
              /\ Eligible(other, op[w].tenant_id)
              /\ Count(other) > Count(result[w].assigned_user_id) - 1

\* C12: with one call at a time, AssignManually of a session whose status is
\* 'none' or 'resolved' fails with "Session cannot be assigned"; with a target
\* that is not online/available it fails with "Staff member not available",
\* with a target at its ceiling with "Staff member at capacity"; a failing
\* call changes no session and no staff row.  When every guard passes, the
\* commit sets the session 'assigned' to the target, stamps
\* escalation_assigned_at with a new time, raises the counter of the target
\* by one, changes nothing else, and the call returns success.
C12_AssignManuallyGuards ==
    [][\A w \in Workers :
          LET sid == op[w].session_id
              uid == op[w].user_id
          IN  /\ (Leaves(w, "idle") /\ op'[w].name = "AssignManually"
                    /\ sessions[op'[w].session_id].tenant_id = op'[w].tenant_id) =>
                    IF sessions[op'[w].session_id].escalation_status
                           \in {"none", "resolved"}
                    THEN /\ pc'[w] = "done"
                         /\ ~result'[w].success
                         /\ result'[w].error = "Session cannot be assigned"
                         /\ UNCHANGED <<sessions, users>>
                    ELSE /\ pc'[w] = "asg_user"
                         /\ UNCHANGED <<sessions, users>>
              /\ (Leaves(w, "asg_user") /\ op[w].name = "AssignManually") =>
                    /\ UNCHANGED <<sessions, users>>
                    /\ IF ~Online(uid)
                       THEN /\ pc'[w] = "done"
                            /\ ~result'[w].success
                            /\ result'[w].error = "Staff member not available"
                       ELSE IF Count(uid) >= Ceiling(uid)
                            THEN /\ pc'[w] = "done"
                                 /\ ~result'[w].success
                                 /\ result'[w].error = "Staff member at capacity"
                            ELSE pc'[w] = "asg_commit"
              /\ (Leaves(w, "asg_commit") /\ op[w].name = "AssignManually") =>
                    /\ pc'[w] = "done"
                    /\ result'[w].success
                    /\ sessions'[sid].escalation_status = "assigned"
                    /\ sessions'[sid].assigned_user_id = uid
                    /\ sessions'[sid].escalation_assigned_at # Null
                    /\ sessions'[sid].escalation_assigned_at
                           # sessions[sid].escalation_assigned_at
                    /\ \A s \in SessionIds \ {sid} : sessions'[s] = sessions[s]
                    /\ users'[uid].current_sessions_count = Count(uid) + 1
                    /\ \A u \in UserIds \ {uid} : users'[u] = users[u]
              /\ (Leaves(w, "done") /\ op[w].name = "AssignManually") =>
                    UNCHANGED <<sessions, users>>]_vars

\* an AssignManually call of a pending session has been refused because the
\* target, online, stands at its ceiling
C12_Witness ==
    \E w \in Workers :
        /\ pc[w] = "done"
        /\ op[w].name = "AssignManually"
        /\ result[w].error = "Staff member at capacity"
        /\ sessions[op[w].session_id].escalation_status = "pending"
        /\ Online(op[w].user_id)
        /\ Count(op[w].user_id) = Ceiling(op[w].user_id)

C14_ResolveRejectedChangesNothing ==
    [][\A w \in Workers :
          /\ (Leaves(w, "idle") /\ op'[w].name = "Resolve") =>
                LET row   == sessions[op'[w].session_id]
                    found == row.tenant_id = op'[w].tenant_id
                IN  /\ ~found =>
                          /\ pc'[w] = "done"
                          /\ ~result'[w].success
                          /\ result'[w].error = "Session not found"
                          /\ UNCHANGED <<sessions, users>>
                    /\ (found /\ row.escalation_status = "none") =>
                          /\ pc'[w] = "done"
                          /\ ~result'[w].success
                          /\ result'[w].error = "Session is not escalated"
                          /\ UNCHANGED <<sessions, users>>
          /\ (Leaves(w, "done") /\ op[w].name = "Resolve") =>
                UNCHANGED <<sessions, users>>]_vars

\* a Resolve call of a session that was never escalated has been rejected
\* while a staff member holds a claim
C14_Witness ==
    \E w \in Workers :
        /\ pc[w] = "done"
        /\ op[w].name = "Resolve"
        /\ result[w].error = "Session is not escalated"
        /\ sessions[op[w].session_id].escalation_status = "none"
        /\ \E uid \in UserIds : Count(uid) >= 1

\* C15: a call made with tenant T for a session that belongs to another
\* tenant ends with the failure "Session not found", a staff member of
\* another tenant is never assigned by it, and no step of the call changes a
\* session or a staff row of another tenant.
C15_TenantIsolation ==
    /\ [](\A w \in Workers :
            (pc[w] = "done" /\ op[w].session_id # Null) =>
                LET row == sessions[op[w].session_id]
                IN  /\ row.tenant_id # op[w].tenant_id =>
                          /\ ~result[w].success
                          /\ result[w].error = "Session not found"
                    /\ (op[w].name = "AssignManually" /\ result[w].success) =>
                          users[op[w].user_id].tenant_id = op[w].tenant_id)
    /\ [][\A w \in Workers :
            pc'[w] # pc[w] =>
                LET tid == IF pc[w] = "idle" THEN op'[w].tenant_id
                                             ELSE op[w].tenant_id
                IN  /\ \A sid \in SessionIds :
                          sessions[sid].tenant_id # tid
                              => sessions'[sid] = sessions[sid]
                    /\ \A uid \in UserIds :
                          users[uid].tenant_id # tid
                              => users'[uid] = users[uid]]_vars

\* C16: in the scenario with staff S1 (one free slot; max 1 and count 0 in
\* the scenario as written) and S2 at its ceiling, both online, the calls
\* Escalate(A), Escalate(B), Resolve(A), AssignManually(B, S1) return in this
\* order with: A 'assigned' to S1 and S1 at its ceiling; B 'pending' with no
\* staff; A 'resolved' and S1 one below its ceiling; B 'assigned' to S1 and
\* S1 at its ceiling again.  The slot that Resolve freed is the slot the
\* manual assignment takes.  S2 stays at its ceiling throughout.
C16_QueueReleaseAssign ==
    LET A == 1  B == 2  S1 == 1  S2 == 2
        returned(n) == calls = n /\ pc[1] = "done" /\ op[1] = Script[n]
    IN  /\ Count(S2) = Ceiling(S2)
        /\ returned(1) =>
              /\ result[1].success
              /\ result[1].auto_assigned
              /\ result[1].assigned_user_id = S1
              /\ sessions[A].escalation_status = "assigned"
              /\ sessions[A].assigned_user_id = S1
              /\ Count(S1) = Ceiling(S1)
              /\ sessions[B].escalation_status = "none"
        /\ returned(2) =>
              /\ result[1].success
              /\ ~result[1].auto_assigned
              /\ sessions[B].escalation_status = "pending"
              /\ sessions[B].assigned_user_id = Null
              /\ sessions[A].escalation_status = "assigned"
              /\ Count(S1) = Ceiling(S1)
        /\ returned(3) =>
              /\ result[1].success
              /\ sessions[A].escalation_status = "resolved"
              /\ Count(S1) = Ceiling(S1) - 1
              /\ sessions[B].escalation_status = "pending"
        /\ returned(4) =>
              /\ result[1].success
              /\ sessions[B].escalation_status = "assigned"
              /\ sessions[B].assigned_user_id = S1
              /\ Count(S1) = Ceiling(S1)
              /\ sessions[A].escalation_status = "resolved"

\* the scenario as written (both ceilings 1) has run to its end: the manual
\* assignment of B to S1 has returned with success
C16_Witness ==
    /\ calls = 4
    /\ pc[1] = "done"
    /\ op[1].name = "AssignManually"
    /\ result[1].success
    /\ Ceiling(1) = 1 /\ Ceiling(2) = 1
    /\ Count(1) = 1 /\ Count(2) = 1
    /\ sessions[1].escalation_status = "resolved"
    /\ sessions[2].escalation_status = "assigned"
    /\ sessions[2].assigned_user_id = 1

\* C17: the list that ListAvailableStaff(T) / FindCandidates(T) returns holds
\* exactly the staff members of tenant T that are online or available with
\* current_sessions_count < max_concurrent_sessions, each of them once and
\* with the row the store holds, and current_sessions_count is non-decreasing
\* along the list.
C17_CandidatesExactAndOrdered ==
    [][\A w \in Workers :
          (Leaves(w, "idle") /\ op'[w].name = "ListAvailableStaff") =>
              LET lst == result'[w].available_staff
                  tid == op'[w].tenant_id
                  n   == Len(lst)
              IN  /\ pc'[w] = "done"
                  /\ result'[w].success
                  /\ result'[w].total = n
                  /\ {lst[i].user_id : i \in 1..n}
                         = {uid \in UserIds : Eligible(uid, tid)}
                  /\ n = Cardinality({uid \in UserIds : Eligible(uid, tid)})
                  /\ \A i \in 1..n : lst[i] = users[lst[i].user_id]
                  /\ \A i \in 1..n, j \in 1..n :
                         i < j => lst[i].current_sessions_count
                                     <= lst[j].current_sessions_count
                  /\ UNCHANGED <<sessions, users>>]_vars

\* a list of two staff members with different loads has been returned
\* while a session is assigned
C17_Witness ==
    \E w \in Workers :
        /\ pc[w] = "done"
        /\ op[w].name = "ListAvailableStaff"
        /\ result[w].total = 2
        /\ result[w].available_staff[1].current_sessions_count
               < result[w].available_staff[2].current_sessions_count

\* the keywords given to a Detect call and those of them that occur in the
\* message, lower case in lower case
FullKeywordSet(call) ==
    {DEFAULT_ESCALATION_KEYWORDS[i] : i \in DOMAIN DEFAULT_ESCALATION_KEYWORDS}
        \cup {call.custom_keywords[i] : i \in DOMAIN call.custom_keywords}

Occurring(call) ==
    {k \in FullKeywordSet(call) : Contains(StrLower(k), StrLower(call.message))}

\* C18: a Detect call reports each keyword of the full keyword set (the
\* defaults and the custom keywords) that occurs in the message as a
\* case-insensitive substring exactly once and reports no other keyword;
\* should_escalate is true if and only if a keyword is reported; the result
\* is the one value that the arguments determine.
C18_DetectReportsEachKeywordOnce ==
    \A w \in Workers :
        (pc[w] = "done" /\ op[w].name = "Detect") =>
            LET detected == result[w].detected_keywords
            IN  /\ \A k \in Occurring(op[w]) :
                      Cardinality({i \in DOMAIN detected : detected[i] = k}) = 1
                /\ \A i \in DOMAIN detected : detected[i] \in Occurring(op[w])
                /\ result[w].should_escalate <=> Len(detected) > 0
                /\ result[w] = DetectAutoEscalation(op[w].message,
                                                    op[w].custom_keywords)

\* C19: the confidence of a Detect result with n reported keywords is
\* min(n / 3, 1), that is 3 * confidence = min(n, 3): it is 0 exactly when
\* should_escalate is false, lies in (0, 1] when should_escalate is true,
\* is 1 for n >= 3, and is non-decreasing in n.
C19_ConfidenceIsCappedThirds ==
    /\ \A w \in Workers :
          (pc[w] = "done" /\ op[w].name = "Detect") =>
              LET n   == Len(result[w].detected_keywords)
                  num == result[w].confidence[1]
                  den == result[w].confidence[2]
              IN  /\ den > 0
                  /\ 3 * num = (IF n < 3 THEN n ELSE 3) * den
                  /\ num = 0 <=> ~result[w].should_escalate
                  /\ result[w].should_escalate => (0 < num /\ num <= den)
                  /\ n >= 3 => num = den
    /\ \A n \in 1..(Len(DEFAULT_ESCALATION_KEYWORDS) + MaxCustom) :
          Confidence(n - 1)[1] * Confidence(n)[2]
              <= Confidence(n)[1] * Confidence(n - 1)[2]

\* a Detect call has reported four keywords and returned confidence 1
C19_Witness ==
    \E w \in Workers :
        /\ pc[w] = "done"
        /\ op[w].name = "Detect"
        /\ Len(result[w].detected_keywords) = 4
        /\ result[w].should_escalate
        /\ result[w].confidence[1] = result[w].confidence[2]

\* C20: a request of a supporter to the resolve endpoint resolves the
\* session only if, in the step that resolves it, the session's assigned
\* staff member is the caller; a supporter's request for a session that is
\* assigned to someone else or to nobody is rejected with the ownership
\* failure and changes no session and no staff row, also while other calls
\* run.
C20_SupporterResolvesOwnSessionOnly ==
    [][\A w \in Workers :
          /\ (Leaves(w, "res_commit") /\ op[w].name = "ResolveBySupporter") =>
                sessions[op[w].session_id].assigned_user_id = op[w].user_id
          /\ (Leaves(w, "idle") /\ op'[w].name = "ResolveBySupporter"
                /\ sessions[op'[w].session_id].assigned_user_id # op'[w].user_id) =>
                /\ pc'[w] = "done"
                /\ ~result'[w].success
                /\ result'[w].error
                       = "Supporters can only resolve sessions assigned to them"
                /\ UNCHANGED <<sessions, users>>
          /\ (Leaves(w, "done") /\ op[w].name = "ResolveBySupporter") =>
                UNCHANGED <<sessions, users>>]_vars

\* C21: within one Escalate call, when the claim on the first candidate of
\* the list fails because that staff member became unavailable after the
\* list was read, Escalate goes on with the remaining candidates; the session
\* is left 'pending' only if the claim failed on every candidate.  Checked
\* on the runs of two calls, an Escalate that succeeded and the deletion of
\* one staff member, where another supporter of the tenant is on duty (its
\* counter starts at 0 below its ceiling, so it is a candidate that can be
\* claimed whenever the list is read): the session must end 'assigned'.
C21_Scenario ==
    /\ calls = 2
    /\ \E w, v \in Workers :
          /\ w # v
          /\ pc[w] = "done" /\ op[w].name = "Escalate" /\ result[w].success
          /\ pc[v] = "done" /\ op[v].name = "DeleteUser" /\ result[v].success
          /\ \E uid \in UserIds \ {op[v].user_id} :
                /\ users[uid].present
                /\ users[uid].role = "supporter"
                /\ users[uid].tenant_id = op[w].tenant_id
                /\ Online(uid)

C21_EscalateTriesNextCandidate ==
    C21_Scenario =>
        \A w \in Workers :
            op[w].name = "Escalate" =>
                /\ sessions[op[w].session_id].escalation_status = "assigned"
                /\ result[w].escalation_status = "assigned"
                /\ result[w].auto_assigned

\* C22: when two Escalate calls on the same session, which was 'none', have
\* run concurrently and both have returned, at most one of them returned
\* success, the other returned "Session already escalated", and the counters
\* of all staff members together grew by at most one.
C22_Scenario ==
    /\ calls = 2
    /\ \A w \in Workers : pc[w] = "done" /\ op[w].name = "Escalate"
    /\ \A v, w \in Workers :
          /\ op[v].session_id = op[w].session_id
          /\ op[v].tenant_id = TenantOfSession(op[v].session_id)

C22_OneEscalatePerSession ==
    C22_Scenario =>
        /\ Cardinality({w \in Workers : result[w].success}) <= 1
        /\ \A w \in Workers :
              ~result[w].success => result[w].error = "Session already escalated"
        /\ \A uid \in UserIds :
              Count(uid) = 0 \/ \A other \in UserIds \ {uid} : Count(other) = 0
        /\ \A uid \in UserIds : Count(uid) <= 1

\* C23: release and claim are atomic updates of the counter, no update is
\* lost while calls run concurrently: the step that commits a claim on staff
\* member X leaves X's counter one above the value the store held, and the
\* step that commits the Resolve of a session that is 'assigned' to X, and
\* was so when the call read it, leaves X's counter one below the value the
\* store held (or at zero).  Hence two
\* Resolve calls on two sessions of X take c to c - 2, and a Resolve next to
\* a claim leaves c.
C23_CounterUpdatesAreAtomic ==
    [][\A w \in Workers :
          /\ Leaves(w, "asg_commit") =>
                Count(op[w].user_id)' = Count(op[w].user_id) + 1
          /\ (/\ Leaves(w, "res_commit")
              /\ sessions[op[w].session_id].escalation_status = "assigned"
              /\ sessions[op[w].session_id].assigned_user_id # Null
              /\ ormSession[w].escalation_status = "assigned"
              /\ ormSession[w].assigned_user_id
                     = sessions[op[w].session_id].assigned_user_id) =>
                LET x == sessions[op[w].session_id].assigned_user_id
                IN  Count(x)' = IF Count(x) > 0 THEN Count(x) - 1 ELSE 0]_vars

\* worker w takes a step of a call with one of the given names
StepOf(w, names) ==
    /\ pc'[w] # pc[w]
    /\ (IF pc[w] = "idle" THEN op'[w].name ELSE op[w].name) \in names

\* the operations of the escalation state machine
StateMachineCalls == {"Escalate", "AssignManually", "Resolve"}

\* C24: the escalation fields are changed only by Escalate, AssignManually
\* and Resolve: every step of any other request, ending a chat session
\* included, leaves escalation_status and assigned_user_id of every session
\* and the counter of every staff member unchanged.
C24_OnlyStateMachineWritesEscalation ==
    [][\A w \in Workers :
          (pc'[w] # pc[w] /\ ~StepOf(w, StateMachineCalls)) =>
              /\ \A sid \in SessionIds :
                    /\ sessions'[sid].escalation_status
                           = sessions[sid].escalation_status
                    /\ sessions'[sid].assigned_user_id
                           = sessions[sid].assigned_user_id
              /\ \A uid \in UserIds :
                    (users[uid].present /\ users'[uid].present) =>
                        Count(uid)' = Count(uid)]_vars

\* C25: in every step in which the counter of a staff member decreases, the
\* step is the commit of a Resolve of a session whose assigned staff member
\* is that one; no step of Escalate, AssignManually, end_session or of the
\* staff administration lowers a counter.
C25_OnlyResolveLowersCounter ==
    [][\A uid \in UserIds :
          (users[uid].present /\ users'[uid].present /\ Count(uid)' < Count(uid)) =>
              \E w \in Workers :
                  /\ StepOf(w, {"Resolve"})
                  /\ Leaves(w, "res_commit")
                  /\ ormSession[w].assigned_user_id = uid]_vars

\* the call whose step worker w takes
Stepping(w) == IF pc[w] = "idle" THEN op'[w] ELSE op[w]

\* no Escalate call on session sid is between its first query and its return
EscalateReturned(sid) ==
    \A w \in Workers :
        ~(op[w].name = "Escalate" /\ op[w].session_id = sid
             /\ pc[w] \notin {"idle", "done"})

\* C26: auto-assignment is attempted once per escalation.  Once Escalate has
\* returned and the session is 'pending', no step of a call on anything else
\* (a Resolve of another session that frees capacity, an Escalate of another
\* session, the creation of a staff member) changes the session, and the
\* session becomes 'assigned' only by the commit of an AssignManually call
\* on it; so it stays 'pending' while eligible staff exist.
C26_AutoAssignOnlyOnce ==
    [][\A sid \in SessionIds :
          (sessions[sid].escalation_status = "pending" /\ EscalateReturned(sid)) =>
              /\ \A w \in Workers :
                    (pc'[w] # pc[w] /\ Stepping(w).session_id # sid) =>
                        sessions'[sid] = sessions[sid]
              /\ sessions'[sid].escalation_status = "assigned" =>
                    \E w \in Workers :
                        /\ Leaves(w, "asg_commit")
                        /\ op[w].name = "AssignManually"
                        /\ op[w].session_id = sid]_vars

\* after three calls a session waits 'pending', every call has returned, and
\* a staff member of its tenant is eligible and serves another session
C26_Witness ==
    /\ calls = 3
    /\ Quiescent
    /\ \E sid \in SessionIds, uid \in UserIds :
          /\ sessions[sid].escalation_status = "pending"
          /\ Eligible(uid, sessions[sid].tenant_id)
          /\ \E other \in SessionIds \ {sid} :
                /\ sessions[other].escalation_status = "assigned"
                /\ sessions[other].assigned_user_id = uid

\* C27: the result of Escalate tells "no candidate found" from a store error
\* during auto-assignment.  The result of the former is success, 'pending',
\* not auto-assigned; Escalate returns it only when the search succeeded and
\* found no eligible staff member, never after find_available_staff or
\* assign_user failed on the store.
C27_StoreErrorIsDistinguished ==
    [][\A w \in Workers :
          (/\ Leaves(w, "esc_refresh")
           /\ result'[w].success
           /\ result'[w].escalation_status = "pending"
           /\ ~result'[w].auto_assigned) =>
              /\ result[w] = NoResult
              /\ \A uid \in UserIds : ~Eligible(uid, op[w].tenant_id)]_vars

\* C28: release is floored at zero and tolerates a missing staff member: the
\* commit of a Resolve of an 'assigned' session whose staff member has the
\* counter 0, or has no row any more, returns success, sets the session
\* 'resolved' and leaves every staff row as it is; no counter is ever
\* negative, and releasing a missing staff member is a no-op.
C28_ReleaseIsFloored ==
    /\ [](\A uid \in UserIds : Count(uid) >= 0)
    /\ [](Release(NoUser) = NoUser)
    /\ [][\A w \in Workers :
             LET sid == op[w].session_id
                 x   == sessions[sid].assigned_user_id
             IN  (/\ Leaves(w, "res_commit")
                  /\ sessions[sid].escalation_status = "assigned"
                  /\ x # Null
                  /\ (~users[x].present \/ Count(x) = 0)) =>
                     /\ result'[w].success
                     /\ result'[w].escalation_status = "resolved"
                     /\ sessions'[sid].escalation_status = "resolved"
                     /\ users' = users]_vars

\* both sessions went to the same staff member; after the second Resolve of
\* session 1 its counter was 0 while session 2 was 'assigned', and the
\* Resolve of session 2 has returned success
C28_Witness ==
    /\ calls = Len(ScriptFloor)
    /\ pc[1] = "done"
    /\ op[1] = ScriptFloor[Len(ScriptFloor)]
    /\ result[1].success
    /\ sessions[1].assigned_user_id # Null
    /\ sessions[1].assigned_user_id = sessions[2].assigned_user_id
    /\ sessions[2].escalation_status = "resolved"
    /\ Count(sessions[2].assigned_user_id) = 0

\* the call of worker w has committed a change: escalate_session is past the
\* commit of line 185 (assign_user and resolve_escalation commit in their
\* last step only)
Committed(w) ==
    /\ op[w].name = "Escalate"
    /\ pc[w] \in {"esc_find", "asg_session", "asg_user", "asg_commit", "esc_refresh"}

\* C29: whenever Escalate, AssignManually or Resolve returns a failure
\* result, also when the store fails part-way through the call, the
\* sessions and the staff rows are as they were before the call: the step
\* that returns the failure changes no row, and the call has committed
\* nothing before it.
C29_FailedCallChangesNothing ==
    [][\A w \in Workers :
          (/\ pc[w] # "done" /\ pc'[w] = "done"
           /\ ~result'[w].success) =>
              /\ UNCHANGED <<sessions, users>>
              /\ ~Committed(w)]_vars

\* C30: in every reachable state, every session with a non-null
\* assigned_user_id refers to an existing user with role 'supporter' of the
\* tenant of the session; a user with another role is never assigned and
\* its counter is never changed (it keeps the 0 it was created with).
C30_AssignedStaffIsSupporterOfTenant ==
    /\ \A sid \in SessionIds :
          LET x == sessions[sid].assigned_user_id
          IN  x # Null =>
                 /\ users[x].present
                 /\ users[x].role = "supporter"
                 /\ users[x].tenant_id = sessions[sid].tenant_id
    /\ \A uid \in UserIds :
          (users[uid].present /\ users[uid].role # "supporter") =>
              /\ Count(uid) = 0
              /\ \A sid \in SessionIds : sessions[sid].assigned_user_id # uid

\* an AssignManually call that names an existing user of the tenant with the
\* role 'admin' for a 'pending' session has been rejected with "User not
\* found"
C30_Witness ==
    \E w \in Workers :
        /\ pc[w] = "done"
        /\ op[w].name = "AssignManually"
        /\ result[w].error = "User not found"
        /\ users[op[w].user_id].present
        /\ users[op[w].user_id].role = "admin"
        /\ users[op[w].user_id].tenant_id = op[w].tenant_id
        /\ sessions[op[w].session_id].escalation_status = "pending"

====
